---------------------------- MODULE Spec2Model ----------------------------
(***************************************************************************)
(* Model of sfdx-core's SfdcUrl utilities (src/unnamed/part_000):          *)
(*   - getLoginAudienceCombos (candidate generation, exclusion, dedup)     *)
(*   - the SfdcUrl constructor and its process-wide warned-origin cache    *)
(*   - the classification predicates and toLightningDomain                 *)
(*   - checkLightningDomain / lookup and the MyDomainResolver they drive   *)
(* and of two collaborators: UX.warn (src/unnamed/part_001) and the        *)
(* KeyValueStore (src/src/lib/config/fileKeyValueStore.ts).                *)
(* Strings are TLA+ strings; the JavaScript string methods used by the     *)
(* code (endsWith, startsWith, includes, replace, RegExp.exec) and the     *)
(* WHATWG URL parser are modelled by operators computing on characters.    *)
(***************************************************************************)
EXTENDS Integers, Sequences, FiniteSets, TLC

VARIABLES
    audienceUrl,    \* getLoginAudienceCombos: argument audienceUrl
    loginUrl,       \* getLoginAudienceCombos: argument loginUrl
    combos,         \* getLoginAudienceCombos: the returned array of [login, audience]
    combosPc,       \* "idle" before the call, "done" after it returned
    cache,          \* SfdcUrl.cache: the static Set of already-warned origins
    warnings,       \* the emitWarning calls made so far, in order
    insecureSeen,   \* history: origins constructed so far with a non-https protocol
    this,           \* the input string of the SfdcUrl instance in hand, "" for none
    localRet,       \* what isLocalUrl() returned on this instance, call by call
    internalRet,    \* what isInternalUrl() returned on this instance, call by call
    salesforceRet,  \* the values isSalesforceDomain() has returned on this instance
    lightningRet,   \* the values toLightningDomain() has returned on this instance
    env,            \* SFDX_DOMAIN_RETRY: << >> when unset, <<n>> when set to n
    gateOp,         \* the async method called: "", "checkLightningDomain", "lookup"
    gatePc,         \* "idle", "resolving" (awaiting resolver.resolve()), "done"
    resolverCalls,  \* the MyDomainResolver.create option bags, in call order
    resolverRet,    \* what resolver.resolve() resolved with, "" if it has not
    gateRet,        \* what the method's promise settled with, "" while pending
    rTimeout,       \* DomainResolver: total timeout, seconds
    rFrequency,     \* DomainResolver: poll frequency, seconds
    rShorten,       \* DomainResolver: whether the final wait is cut to the deadline
    dnsDown,        \* environment: TRUE when every probe of this resolution fails
    rState,         \* "Idle", "Polling", "Resolved", "TimedOut"
    rPhase,         \* while Polling: "probe" (about to probe) or "wait"
    rElapsed,       \* seconds since Polling was entered
    rProbeTimes,    \* the elapsed times at which probes were started
    rLastError,     \* the most recent probe error, "" if none
    rFailure,       \* what resolve() failed with: << >> or <<[kind, elapsed, last]>>
    uxWarnings,     \* UX.warnings: the static Set of collected warning messages
    uxLogged,       \* the messages passed to logger.warn
    uxStderr,       \* the messages written with console.warn
    uxCall,         \* history: << >> or <<[message, isOutputEnabled, shouldLog, before]>>
    file,           \* KeyValueStore: the JSON document in the store's file
    lastCall,       \* history: the last completed store call, << >> if none
    tPc,            \* per overlapping update call: "idle", "read", "done"
    tArgs,          \* per overlapping update call: [alias, property, group]
    tLocal          \* per overlapping update call: the document readJSON() returned

comboVars == <<audienceUrl, loginUrl, combos, combosPc>>
urlVars == <<cache, warnings, insecureSeen, this,
             localRet, internalRet, salesforceRet, lightningRet>>
gateVars == <<env, gateOp, gatePc, resolverCalls, resolverRet, gateRet>>
resolverVars == <<rTimeout, rFrequency, rShorten, dnsDown, rState, rPhase,
                  rElapsed, rProbeTimes, rLastError, rFailure>>
uxVars == <<uxWarnings, uxLogged, uxStderr, uxCall>>
storeVars == <<file, lastCall, tPc, tArgs, tLocal>>
vars == <<comboVars, urlVars, gateVars, resolverVars, uxVars, storeVars>>

-----------------------------------------------------------------------------
(* JavaScript string primitives *)

\* s.substring(i-1, j) with 1-based inclusive bounds; "" when the range is empty
Sub(s, i, j) == IF i > j THEN "" ELSE SubSeq(s, i, j)

\* String.prototype.endsWith
EndsWith(s, p) ==
    /\ Len(p) <= Len(s)
    /\ Sub(s, Len(s) - Len(p) + 1, Len(s)) = p

\* String.prototype.startsWith
StartsWith(s, p) ==
    /\ Len(p) <= Len(s)
    /\ Sub(s, 1, Len(p)) = p

\* the positions (1-based) at which p occurs in s
Occurrences(s, p) ==
    { i \in 1..(Len(s) - Len(p) + 1) : Sub(s, i, i + Len(p) - 1) = p }

\* String.prototype.indexOf, 1-based; 0 when p does not occur
IndexOf(s, p) ==
    IF Occurrences(s, p) = {} THEN 0
    ELSE CHOOSE i \in Occurrences(s, p) : \A j \in Occurrences(s, p) : i <= j

\* String.prototype.includes
Includes(s, p) == Occurrences(s, p) # {}

\* String.prototype.replace(p, r) with a string pattern: the FIRST occurrence
Replace(s, p, r) ==
    IF IndexOf(s, p) = 0 THEN s
    ELSE Sub(s, 1, IndexOf(s, p) - 1) \o r
         \o Sub(s, IndexOf(s, p) + Len(p), Len(s))

-----------------------------------------------------------------------------
(* WHATWG URL parsing, for absolute URLs "<scheme>://<host>[:<port>][<path>]"
   written in lower case without userinfo, query or fragment *)

SpecialSchemes == {"http:", "https:", "ftp:", "ws:", "wss:"}

DefaultPort(protocol) ==
    CASE protocol = "https:" -> "443"
      [] protocol = "wss:"   -> "443"
      [] protocol = "http:"  -> "80"
      [] protocol = "ws:"    -> "80"
      [] protocol = "ftp:"   -> "21"
      [] OTHER               -> ""

\* url.protocol: the scheme with its colon
Protocol(input) == Sub(input, 1, IndexOf(input, ":"))

\* what follows "<scheme>://"
AfterScheme(input) == Sub(input, Len(Protocol(input)) + 3, Len(input))

\* host[:port], up to the first "/" of the remainder
Authority(input) ==
    IF IndexOf(AfterScheme(input), "/") = 0 THEN AfterScheme(input)
    ELSE Sub(AfterScheme(input), 1, IndexOf(AfterScheme(input), "/") - 1)

\* url.hostname
Hostname(input) ==
    IF IndexOf(Authority(input), ":") = 0 THEN Authority(input)
    ELSE Sub(Authority(input), 1, IndexOf(Authority(input), ":") - 1)

\* url.port: "" when absent or the scheme's default
Port(input) ==
    LET a == Authority(input)
        p == IF IndexOf(a, ":") = 0 THEN "" ELSE Sub(a, IndexOf(a, ":") + 1, Len(a))
    IN  IF p = DefaultPort(Protocol(input)) THEN "" ELSE p

\* url.origin: scheme, host and non-default port; "null" for non-special schemes
Origin(input) ==
    IF Protocol(input) \notin SpecialSchemes THEN "null"
    ELSE Protocol(input) \o "//" \o Hostname(input)
         \o (IF Port(input) = "" THEN "" ELSE ":" \o Port(input))

-----------------------------------------------------------------------------
(* getLoginAudienceCombos *)

SANDBOX == "https://test.salesforce.com"
PRODUCTION == "https://login.salesforce.com"

\* the literal array of 11 [login, audience] candidates
Candidates(a, l) ==
    << <<l, l>>,
       <<SANDBOX, SANDBOX>>,
       <<PRODUCTION, PRODUCTION>>,
       <<a, a>>,
       <<a, PRODUCTION>>,
       <<a, SANDBOX>>,
       <<l, a>>,
       <<l, PRODUCTION>>,
       <<l, SANDBOX>>,
       <<PRODUCTION, a>>,
       <<SANDBOX, a>> >>

\* the .filter callback: strict string equality against the two constants
Survives(pair) ==
    ~ (\/ (pair[1] = PRODUCTION /\ pair[2] = SANDBOX)
       \/ (pair[1] = SANDBOX /\ pair[2] = PRODUCTION))

Filtered(a, l) == SelectSeq(Candidates(a, l), Survives)

\* the URL strings the calls are made with
ComboUrls ==
    { PRODUCTION, SANDBOX,
      "https://login.salesforce.com/services/oauth2",
      "https://test.salesforce.com/",
      "https://login.salesforce.com:443",
      "http://login.salesforce.com",
      "https://acme.my.salesforce.com",
      "https://acme.my.salesforce.com/home",
      "https://acme--dev.sandbox.my.salesforce.com",
      "https://gs1.salesforce.com",
      "https://login.salesforce.com:8443/x" }

\* new URL(u).origin for each of the call's URL strings (parsed once)
OriginOf == [u \in ComboUrls |-> Origin(u)]

\* the Map key `${l.origin}:${a.origin}`
ComboKey(pair) == OriginOf[pair[1]] \o ":" \o OriginOf[pair[2]]

\* a map whose set() ignores a key that is already present (first value kept)
MapSetKeepFirst(acc, k, v) ==
    IF \E i \in 1..Len(acc) : acc[i].key = k
    THEN acc
    ELSE Append(acc, [key |-> k, value |-> v])

\* a map whose set() deletes an existing key and re-inserts it at the end
MapSetMoveToEnd(acc, k, v) ==
    Append(SelectSeq(acc, LAMBDA e : e.key # k), [key |-> k, value |-> v])

\* Map.prototype.set on an insertion-ordered map, kept as a sequence of entries:
\* an existing key keeps its position and takes the new value, a new key is appended
MapSet(acc, k, v) ==
    IF \E i \in 1..Len(acc) : acc[i].key = k
    THEN [i \in 1..Len(acc) |->
             IF acc[i].key = k THEN [key |-> k, value |-> v] ELSE acc[i]]
    ELSE Append(acc, [key |-> k, value |-> v])

\* filtered.reduce(..., new Map()) over the first n elements
RECURSIVE Reduce(_, _)
Reduce(f, n) ==
    IF n = 0 THEN << >>
    ELSE MapSet(Reduce(f, n - 1), ComboKey(f[n]), f[n])

\* [...reduced.values()]
MapValues(m) == [i \in 1..Len(m) |-> m[i].value]

getLoginAudienceCombos(a, l) ==
    MapValues(Reduce(Filtered(a, l), Len(Filtered(a, l))))

\* UX.warnings as the class is loaded: new Set<string>()
UxIdle ==
    /\ uxWarnings = {}
    /\ uxLogged = {}
    /\ uxStderr = {}
    /\ uxCall = << >>

\* the key-value groups and the overlapping calls
Groups == {"default", "orgs"}
Tasks == {1, 2}

\* the document KeyValueStore.create writes: { "<defaultGroup>": {} }
NewDocument ==
    [groups |-> {"default"}, entries |-> [g \in Groups |-> << >>]]

\* a newly created store on which nothing has been called
StoreIdle ==
    /\ file = NewDocument
    /\ lastCall = << >>
    /\ tPc = [t \in Tasks |-> "idle"]
    /\ tArgs = [t \in Tasks |-> << >>]
    /\ tLocal = [t \in Tasks |-> << >>]

\* no DomainResolver has been constructed
ResolverIdle ==
    /\ rTimeout = 0
    /\ rFrequency = 1
    /\ rShorten = FALSE
    /\ dnsDown = FALSE
    /\ rState = "Idle"
    /\ rPhase = ""
    /\ rElapsed = 0
    /\ rProbeTimes = {}
    /\ rLastError = ""
    /\ rFailure = << >>

\* neither checkLightningDomain nor lookup has been called
GateIdle ==
    /\ env = << >>
    /\ gateOp = ""
    /\ gatePc = "idle"
    /\ resolverCalls = << >>
    /\ resolverRet = ""
    /\ gateRet = ""

\* no SfdcUrl has been constructed: the static cache is empty
UrlIdle ==
    /\ cache = {}
    /\ warnings = << >>
    /\ insecureSeen = {}
    /\ this = ""
    /\ localRet = << >>
    /\ internalRet = << >>
    /\ salesforceRet = {}
    /\ lightningRet = {}

InitCombos ==
    /\ audienceUrl \in ComboUrls
    /\ loginUrl \in ComboUrls
    /\ combos = << >>
    /\ combosPc = "idle"
    /\ UrlIdle
    /\ GateIdle
    /\ ResolverIdle
    /\ UxIdle
    /\ StoreIdle

CallGetLoginAudienceCombos ==
    /\ combosPc = "idle"
    /\ combos' = getLoginAudienceCombos(audienceUrl, loginUrl)
    /\ combosPc' = "done"
    /\ UNCHANGED <<audienceUrl, loginUrl, urlVars, gateVars, resolverVars,
                   uxVars, storeVars>>

NextCombos == CallGetLoginAudienceCombos

SpecCombos == InitCombos /\ [][NextCombos]_vars

-----------------------------------------------------------------------------
(* Properties of getLoginAudienceCombos *)

\* positions of the surviving candidates that have origin-pair key k
KeyPositions(f, k) == { i \in 1..Len(f) : ComboKey(f[i]) = k }

FirstWithKey(f, k) ==
    f[CHOOSE i \in KeyPositions(f, k) : \A j \in KeyPositions(f, k) : i <= j]

LastWithKey(f, k) ==
    f[CHOOSE i \in KeyPositions(f, k) : \A j \in KeyPositions(f, k) : i >= j]

\* the distinct keys of f[1..n], each at the position of its first occurrence
RECURSIVE DistinctKeys(_, _)
DistinctKeys(f, n) ==
    IF n = 0 THEN << >>
    ELSE IF \E i \in 1..(n - 1) : ComboKey(f[i]) = ComboKey(f[n])
         THEN DistinctKeys(f, n - 1)
         ELSE Append(DistinctKeys(f, n - 1), ComboKey(f[n]))

CombosKeys == [i \in 1..Len(combos) |-> ComboKey(combos[i])]

SurvivingNow == Filtered(audienceUrl, loginUrl)

C2_NoCrossEnvironmentPair ==
    combosPc = "done" =>
        \A i \in 1..Len(combos) :
            /\ ~ (OriginOf[combos[i][1]] = PRODUCTION /\ OriginOf[combos[i][2]] = SANDBOX)
            /\ ~ (OriginOf[combos[i][1]] = SANDBOX /\ OriginOf[combos[i][2]] = PRODUCTION)

\* C3: the keys of the returned pairs are exactly the distinct keys of the
\* surviving candidates, each at the position of its first occurrence; no two
\* returned pairs share a key.
C3_KeysInFirstSeenOrder ==
    combosPc = "done" =>
        /\ CombosKeys = DistinctKeys(SurvivingNow, Len(SurvivingNow))
        /\ \A i, j \in 1..Len(combos) :
               ComboKey(combos[i]) = ComboKey(combos[j]) => i = j

\* C3 witness: the call returned and a key occurs twice among the surviving
\* candidates with a different key in between, so a moved key would show.
C3_Witness ==
    /\ combosPc = "done"
    /\ \E m, n, o \in 1..Len(SurvivingNow) :
           /\ m < n /\ n < o
           /\ ComboKey(SurvivingNow[m]) = ComboKey(SurvivingNow[o])
           /\ ComboKey(SurvivingNow[m]) # ComboKey(SurvivingNow[n])
    /\ Len(combos) < Len(SurvivingNow)

-----------------------------------------------------------------------------
(* class SfdcUrl: constructor and classification *)

\* the guard of the constructor's warning, without the cache lookup
WarnsAlways(protocol, origin, warned) == protocol # "https:"

\* the guard of the constructor's warning
WarnsInsecure(protocol, origin, warned) ==
    protocol # "https:" /\ origin \notin warned

allowlistOfSalesforceDomainPatterns ==
    << ".cloudforce.com", ".content.force.com", ".force.com", ".salesforce.com",
       ".salesforceliveagent.com", ".secure.force.com", "crmforce.mil" >>

allowlistOfSalesforceHosts == {"developer.salesforce.com", "trailhead.salesforce.com"}

isSalesforceDomain(hostname) ==
    \E n \in 1..Len(allowlistOfSalesforceDomainPatterns) :
        \/ EndsWith(hostname, allowlistOfSalesforceDomainPatterns[n])
        \/ hostname \in allowlistOfSalesforceHosts

LOCAL_PARTS == {"localhost.sfdcdev.", ".internal."}

isLocalUrl(origin) == \E part \in LOCAL_PARTS : Includes(origin, part)

INTERNAL_URL_PARTS ==
    { ".vpod.", "stm.salesforce.com", "stm.force.com", ".blitz.salesforce.com",
      ".stm.salesforce.ms", ".pc-rnd.force.com", ".pc-rnd.salesforce.com" }

\* isInternalUrl without the isLocalUrl() disjunct
isInternalUrlNoLocal(origin) ==
    \/ StartsWith(origin, "https://gs1.")
    \/ \E part \in INTERNAL_URL_PARTS : Includes(origin, part)

isInternalUrl(origin) ==
    \/ StartsWith(origin, "https://gs1.")
    \/ isLocalUrl(origin)
    \/ \E part \in INTERNAL_URL_PARTS : Includes(origin, part)

\* the value of a call that throws
Throws == "<throws>"

\* /https?:\/\/([^.]*)/.exec(s): the leftmost "http://" or "https://", and as
\* group 1 the characters after it up to the next "." (or the end); the group
\* wrapped in a sequence, << >> when the expression does not match
ExecFirstLabel(s) ==
    LET starts == Occurrences(s, "http://") \cup Occurrences(s, "https://")
    IN  IF starts = {} THEN << >>
        ELSE LET at == CHOOSE i \in starts : \A j \in starts : i <= j
                 from == IF Sub(s, at, at + 6) = "http://" THEN at + 7 ELSE at + 8
                 rest == Sub(s, from, Len(s))
             IN  << IF IndexOf(rest, ".") = 0 THEN rest
                    ELSE Sub(rest, 1, IndexOf(rest, ".") - 1) >>

toLightningDomain(origin) ==
    IF EndsWith(origin, ".my.salesforce.mil")
    THEN Replace(origin, ".my.salesforce.mil", ".lightning.crmforce.mil")
    ELSE IF EndsWith(origin, "sandbox.my.salesforce.com")
    THEN Replace(origin, "sandbox.my.salesforce.com", "sandbox.lightning.force.com")
    ELSE IF ExecFirstLabel(origin) = << >>
    THEN Throws   \* ensureArray(null) throws
    ELSE "https://" \o ExecFirstLabel(origin)[1] \o ".lightning.force.com"

\* the strings SfdcUrl instances are constructed from
UrlInputs ==
    { "https://developer.salesforce.com",
      "https://foo.force.com",
      "https://force.com",
      "https://force.com.evil.example",
      "https://evilcrmforce.mil",
      "https://acme.lightning.crmforce.mil",
      "https://acme.my.salesforce.com",
      "https://acme.sandbox.my.salesforce.com",
      "https://acme.my.salesforce.mil",
      "https://a.my.salesforce.mil.b.my.salesforce.mil",
      "https://sandbox.my.salesforce.com.b.sandbox.my.salesforce.com",
      "https://gs1.my.salesforce.com",
      "https://my.internal.salesforce.com",
      "https://acme.stm.salesforce.com",
      "http://acme.localhost.sfdcdev.salesforce.com:6109",
      "http://acme.my.salesforce.com",
      "http://acme.my.salesforce.com/setup",
      "https://localhost:8443",
      "sfdx://auth.example.com",
      "vscode://salesforce.example.com" }

\* the parsed fields of each instance and the value each method computes on it
SfdcUrl ==
    [ input \in UrlInputs |->
        [ protocol           |-> Protocol(input),
          hostname           |-> Hostname(input),
          origin             |-> Origin(input),
          isSalesforceDomain |-> isSalesforceDomain(Hostname(input)),
          isLocalUrl         |-> isLocalUrl(Origin(input)),
          isInternalUrl      |-> isInternalUrl(Origin(input)),
          toLightningDomain  |-> toLightningDomain(Origin(input)) ] ]

\* how many times each predicate is called on one instance
MaxCalls == 2

\* no getLoginAudienceCombos call is in hand
ComboIdle ==
    /\ audienceUrl = ""
    /\ loginUrl = ""
    /\ combos = << >>
    /\ combosPc = "idle"

InitUrl ==
    /\ ComboIdle
    /\ UrlIdle
    /\ GateIdle
    /\ ResolverIdle
    /\ UxIdle
    /\ StoreIdle

\* new SfdcUrl(input): parse, then warn once per insecure origin
Construct(input) ==
    LET u == SfdcUrl[input]
    IN  /\ this' = input
        /\ IF WarnsInsecure(u.protocol, u.origin, cache)
           THEN /\ cache' = cache \cup {u.origin}
                /\ warnings' = Append(warnings,
                                      [protocol |-> u.protocol, origin |-> u.origin])
           ELSE UNCHANGED <<cache, warnings>>
        /\ insecureSeen' = IF u.protocol # "https:"
                           THEN insecureSeen \cup {u.origin} ELSE insecureSeen
        /\ localRet' = << >>
        /\ internalRet' = << >>
        /\ salesforceRet' = {}
        /\ lightningRet' = {}
        /\ UNCHANGED <<comboVars, uxVars, storeVars, gateVars, resolverVars>>

CallIsSalesforceDomain ==
    /\ this # ""
    /\ salesforceRet' = salesforceRet \cup {SfdcUrl[this].isSalesforceDomain}
    /\ UNCHANGED <<comboVars, uxVars, storeVars, gateVars, resolverVars, cache, warnings, insecureSeen, this,
                   localRet, internalRet, lightningRet>>

CallIsLocalUrl ==
    /\ this # ""
    /\ Len(localRet) < MaxCalls
    /\ localRet' = Append(localRet, SfdcUrl[this].isLocalUrl)
    /\ UNCHANGED <<comboVars, uxVars, storeVars, gateVars, resolverVars, cache, warnings, insecureSeen, this,
                   internalRet, salesforceRet, lightningRet>>

CallIsInternalUrl ==
    /\ this # ""
    /\ Len(internalRet) < MaxCalls
    /\ internalRet' = Append(internalRet, SfdcUrl[this].isInternalUrl)
    /\ UNCHANGED <<comboVars, uxVars, storeVars, gateVars, resolverVars, cache, warnings, insecureSeen, this,
                   localRet, salesforceRet, lightningRet>>

CallToLightningDomain ==
    /\ this # ""
    /\ lightningRet' = lightningRet \cup {SfdcUrl[this].toLightningDomain}
    /\ UNCHANGED <<comboVars, uxVars, storeVars, gateVars, resolverVars, cache, warnings, insecureSeen, this,
                   localRet, internalRet, salesforceRet>>

NextUrl ==
    \/ \E input \in UrlInputs : Construct(input)
    \/ CallIsSalesforceDomain
    \/ CallIsLocalUrl
    \/ CallIsInternalUrl
    \/ CallToLightningDomain

SpecUrl == InitUrl /\ [][NextUrl]_vars

-----------------------------------------------------------------------------
(* Properties of the SfdcUrl constructor and classifiers *)

AllOrigins == { SfdcUrl[input].origin : input \in UrlInputs }

\* how many warnings were emitted for origin o
WarnCount(o) == Cardinality({ i \in 1..Len(warnings) : warnings[i].origin = o })

WarnedOncePerInsecureOrigin ==
    /\ \A i \in 1..Len(warnings) : warnings[i].protocol # "https:"
    /\ \A o \in AllOrigins : WarnCount(o) = IF o \in insecureSeen THEN 1 ELSE 0

\* C6: over any sequence of constructions, exactly one warning has been emitted
\* for each origin constructed at least once with a non-https protocol, none for
\* an https URL, and the set of warned origins only grows.
C6_WarnOncePerInsecureOrigin ==
    /\ []WarnedOncePerInsecureOrigin
    /\ [][cache \subseteq cache']_vars

\* C6 witness: an insecure origin was constructed, warned about, and is now
\* constructed again (by a different input string) without a second warning.
C6_Witness ==
    /\ this = "http://acme.my.salesforce.com/setup"
    /\ "http://acme.my.salesforce.com" \in cache
    /\ Len(warnings) >= 2
    /\ warnings[1].origin = "http://acme.my.salesforce.com"
    /\ WarnCount("http://acme.my.salesforce.com") = 1

\* h ends with pattern p and the match starts a label: p begins with a dot, or
\* the match is the whole hostname, or the character before it is a dot
EndsOnLabelBoundary(h, p) ==
    /\ EndsWith(h, p)
    /\ \/ Sub(p, 1, 1) = "."
       \/ Len(h) = Len(p)
       \/ Sub(h, Len(h) - Len(p), Len(h) - Len(p)) = "."

\* C8: isSalesforceDomain() is true iff the hostname is one of the allow-listed
\* hosts or ends, on a label boundary, with one of the allow-listed suffixes.
C8_SalesforceDomainOnLabelBoundary ==
    this # "" =>
        \A r \in salesforceRet :
            r = ( \/ SfdcUrl[this].hostname \in allowlistOfSalesforceHosts
                  \/ \E n \in 1..Len(allowlistOfSalesforceDomainPatterns) :
                        EndsOnLabelBoundary(SfdcUrl[this].hostname,
                                            allowlistOfSalesforceDomainPatterns[n]) )

\* s with its trailing p replaced by r (s ends with p)
ReplaceSuffix(s, p, r) == Sub(s, 1, Len(s) - Len(p)) \o r

FirstLabel(hostname) ==
    IF IndexOf(hostname, ".") = 0 THEN hostname
    ELSE Sub(hostname, 1, IndexOf(hostname, ".") - 1)

\* an http(s) origin whose hostname has a dot-delimited first label
WellFormedOrigin(input) ==
    /\ SfdcUrl[input].protocol \in {"http:", "https:"}
    /\ Includes(SfdcUrl[input].hostname, ".")

\* C9: for a well-formed origin, toLightningDomain() rewrites only the trailing
\* .my.salesforce.mil suffix, else only the trailing sandbox.my.salesforce.com
\* suffix, else returns https://<first hostname label>.lightning.force.com.
C9_LightningRewritesSuffixOnly ==
    (this # "" /\ WellFormedOrigin(this)) =>
        \A r \in lightningRet :
            r = IF EndsWith(SfdcUrl[this].origin, ".my.salesforce.mil")
                THEN ReplaceSuffix(SfdcUrl[this].origin, ".my.salesforce.mil",
                                   ".lightning.crmforce.mil")
                ELSE IF EndsWith(SfdcUrl[this].origin, "sandbox.my.salesforce.com")
                THEN ReplaceSuffix(SfdcUrl[this].origin, "sandbox.my.salesforce.com",
                                   "sandbox.lightning.force.com")
                ELSE "https://" \o FirstLabel(SfdcUrl[this].hostname)
                     \o ".lightning.force.com"

\* C10: on one instance, isLocalUrl() true implies isInternalUrl() true, and
\* repeated calls of either predicate return the same value.
C10_LocalImpliesInternal ==
    /\ \A i \in 1..Len(localRet) : \A j \in 1..Len(internalRet) :
           localRet[i] => internalRet[j]
    /\ \A i, j \in 1..Len(localRet) : localRet[i] = localRet[j]
    /\ \A i, j \in 1..Len(internalRet) : internalRet[i] = internalRet[j]

\* C10 witness: a local URL on which both predicates were called twice.
C10_Witness ==
    /\ Len(localRet) >= 2
    /\ Len(internalRet) >= 2
    /\ localRet[1]
    /\ internalRet[2]

-----------------------------------------------------------------------------
(* SfdcUrl.checkLightningDomain and SfdcUrl.lookup *)

\* the default of new Env().getNumber('SFDX_DOMAIN_RETRY', 240)
DefaultDomainRetry == 240

\* frequency: new Duration(1, Duration.Unit.SECONDS)
PollFrequencySeconds == 1

\* the largest SFDX_DOMAIN_RETRY value tried
MaxRetry == 3

EnvValues == { << >> } \cup { <<n>> : n \in 0..MaxRetry }

\* ensureNumber(new Env().getNumber('SFDX_DOMAIN_RETRY', 240)), in seconds
DomainRetry(e) == IF e = << >> THEN DefaultDomainRetry ELSE e[1]

\* the early return of checkLightningDomain, without the zero-timeout test
ShortCircuitsInternalOnly(input, seconds) == SfdcUrl[input].isInternalUrl

\* the early return of checkLightningDomain
ShortCircuits(input, seconds) ==
    SfdcUrl[input].isInternalUrl \/ seconds = 0

\* the url checkLightningDomain hands to MyDomainResolver.create
CheckTarget(input) == SfdcUrl[input].toLightningDomain

\* a lookup that resolves the lightning rewrite
LookupTargetLightning(input) == SfdcUrl[input].toLightningDomain

\* the url lookup hands to MyDomainResolver.create
LookupTarget(input) == SfdcUrl[input].origin

\* new URL(s) accepts s: an http(s) URL whose port, if any, is all digits
Digits == {"0", "1", "2", "3", "4", "5", "6", "7", "8", "9"}

IsValidUrl(s) ==
    LET a == Authority(s)
        p == IF IndexOf(a, ":") = 0 THEN "" ELSE Sub(a, IndexOf(a, ":") + 1, Len(a))
    IN  /\ s # Throws
        /\ Protocol(s) # ""
        /\ Hostname(s) # ""
        /\ \A i \in 1..Len(p) : Sub(p, i, i) \in Digits

\* the addresses DNS may answer with
Addresses == {"10.0.0.1", "10.0.0.2"}

\* the instances the async methods are called on: http(s) URLs whose hostname
\* has a dot (the precondition of toLightningDomain)
GateUrls ==
    { input \in UrlInputs :
        /\ SfdcUrl[input].protocol \in {"http:", "https:"}
        /\ Includes(SfdcUrl[input].hostname, ".") }

\* the state right after new SfdcUrl(input) in a fresh process
Constructed(input) ==
    /\ this = input
    /\ cache = IF SfdcUrl[input].protocol # "https:"
               THEN {SfdcUrl[input].origin} ELSE {}
    /\ insecureSeen = cache
    /\ warnings = IF SfdcUrl[input].protocol # "https:"
                  THEN << [protocol |-> SfdcUrl[input].protocol,
                           origin |-> SfdcUrl[input].origin] >>
                  ELSE << >>
    /\ localRet = << >>
    /\ internalRet = << >>
    /\ salesforceRet = {}
    /\ lightningRet = {}

InitGate ==
    /\ ComboIdle
    /\ \E input \in GateUrls : Constructed(input)
    /\ env \in EnvValues
    /\ gateOp = ""
    /\ gatePc = "idle"
    /\ resolverCalls = << >>
    /\ resolverRet = ""
    /\ gateRet = ""
    /\ ResolverIdle
    /\ UxIdle
    /\ StoreIdle

\* checkLightningDomain() up to its first await that leaves the method
CallCheckLightningDomain ==
    /\ gatePc = "idle"
    /\ gateOp' = "checkLightningDomain"
    /\ IF ShortCircuits(this, DomainRetry(env))
       THEN /\ gateRet' = "true"
            /\ gatePc' = "done"
            /\ UNCHANGED resolverCalls
       ELSE IF ~ IsValidUrl(CheckTarget(this))
       THEN /\ gateRet' = Throws     \* new URL(...) throws
            /\ gatePc' = "done"
            /\ UNCHANGED resolverCalls
       ELSE /\ resolverCalls' = Append(resolverCalls,
                                       [url       |-> CheckTarget(this),
                                        timeout   |-> DomainRetry(env),
                                        frequency |-> PollFrequencySeconds])
            /\ gatePc' = "resolving"
            /\ UNCHANGED gateRet
    /\ UNCHANGED <<comboVars, uxVars, storeVars, urlVars, resolverVars, env, resolverRet>>

\* lookup() up to resolver.resolve()
CallLookup ==
    /\ gatePc = "idle"
    /\ gateOp' = "lookup"
    /\ IF ~ IsValidUrl(LookupTarget(this))
       THEN /\ gateRet' = Throws
            /\ gatePc' = "done"
            /\ UNCHANGED resolverCalls
       ELSE /\ resolverCalls' = Append(resolverCalls,
                                       [url       |-> LookupTarget(this),
                                        timeout   |-> DomainRetry(env),
                                        frequency |-> PollFrequencySeconds])
            /\ gatePc' = "resolving"
            /\ UNCHANGED gateRet
    /\ UNCHANGED <<comboVars, uxVars, storeVars, urlVars, resolverVars, env, resolverRet>>

\* resolver.resolve() fulfils: checkLightningDomain returns true, lookup the address
ResolverResolves(address) ==
    /\ gatePc = "resolving"
    /\ resolverRet' = address
    /\ gateRet' = IF gateOp = "checkLightningDomain" THEN "true" ELSE address
    /\ gatePc' = "done"
    /\ UNCHANGED <<comboVars, uxVars, storeVars, urlVars, resolverVars, env, gateOp, resolverCalls>>

\* resolver.resolve() rejects: the method rejects with the same error
ResolverRejects ==
    /\ gatePc = "resolving"
    /\ gateRet' = Throws
    /\ gatePc' = "done"
    /\ UNCHANGED <<comboVars, uxVars, storeVars, urlVars, resolverVars, env, gateOp, resolverCalls, resolverRet>>

NextGate ==
    \/ CallCheckLightningDomain
    \/ CallLookup
    \/ \E address \in Addresses : ResolverResolves(address)
    \/ ResolverRejects

SpecGate == InitGate /\ [][NextGate]_vars

\* C4: checkLightningDomain returns success with no resolver created when the
\* URL is internal or the timeout is zero seconds; otherwise the resolver is
\* created exactly once, for the lightning rewrite with frequency 1 second, and
\* success is returned only once that resolution has succeeded.
C4_CheckLightningDomainGate ==
    gateOp = "checkLightningDomain" =>
        IF SfdcUrl[this].isInternalUrl \/ DomainRetry(env) = 0
        THEN /\ resolverCalls = << >>
             /\ gatePc = "done"
             /\ gateRet = "true"
        ELSE /\ resolverCalls = << [url       |-> SfdcUrl[this].toLightningDomain,
                                    timeout   |-> DomainRetry(env),
                                    frequency |-> 1] >>
             /\ gateRet = "true" => resolverRet \in Addresses
             /\ (gatePc = "done" /\ resolverRet \in Addresses) => gateRet = "true"
             /\ gatePc = "resolving" => gateRet = ""

\* C4 witness: a non-internal URL with a non-zero timeout, probed once and
\* resolved, after which success was returned.
C4_Witness ==
    /\ gateOp = "checkLightningDomain"
    /\ ~ SfdcUrl[this].isInternalUrl
    /\ env = <<2>>
    /\ Len(resolverCalls) = 1
    /\ resolverRet \in Addresses
    /\ gateRet = "true"

\* C7: lookup always creates the resolver for the URL's original origin, also
\* for internal and local URLs, with the SFDX_DOMAIN_RETRY timeout (default 240
\* seconds) and frequency 1 second, and returns the address the resolver
\* resolved with.
C7_LookupResolvesOrigin ==
    gateOp = "lookup" =>
        /\ resolverCalls = << [url       |-> SfdcUrl[this].origin,
                               timeout   |-> IF env = << >> THEN 240 ELSE env[1],
                               frequency |-> 1] >>
        /\ (gatePc = "done" /\ resolverRet \in Addresses) => gateRet = resolverRet
        /\ gateRet \in Addresses => gateRet = resolverRet

\* C7 witness: lookup on a local (hence internal) URL whose origin differs from
\* its lightning rewrite, resolved to an address that was returned.
C7_Witness ==
    /\ gateOp = "lookup"
    /\ SfdcUrl[this].isLocalUrl
    /\ SfdcUrl[this].isInternalUrl
    /\ SfdcUrl[this].origin # SfdcUrl[this].toLightningDomain
    /\ gatePc = "done"
    /\ gateRet \in Addresses

-----------------------------------------------------------------------------
(* DomainResolver: the bounded polling engine behind MyDomainResolver.
   Probes are instantaneous; time passes only in the waits between them. *)

\* the largest timeout and poll frequency tried, in seconds
MaxTimeout == 4
MaxFrequency == 3

InitResolver ==
    /\ ComboIdle
    /\ UrlIdle
    /\ GateIdle
    /\ rTimeout \in 0..MaxTimeout
    /\ rFrequency \in 1..MaxFrequency
    /\ rShorten \in BOOLEAN
    /\ dnsDown \in BOOLEAN
    /\ rState = "Idle"
    /\ rPhase = ""
    /\ rElapsed = 0
    /\ rProbeTimes = {}
    /\ rLastError = ""
    /\ rFailure = << >>
    /\ UxIdle
    /\ StoreIdle

\* a deadline test that lets the loop run on when elapsed equals the timeout
DeadlineAfter(elapsed, timeout) == elapsed > timeout

\* elapsed time has reached or exceeded the timeout
DeadlineReached(elapsed, timeout) == elapsed >= timeout

\* elapsed time after one wait: a full poll interval, or, when the final wait
\* is shortened, no further than the deadline
AfterWait(elapsed, frequency, timeout, shorten) ==
    IF shorten /\ elapsed + frequency > timeout
    THEN timeout
    ELSE elapsed + frequency

\* resolve(): a zero timeout succeeds at once, otherwise polling starts
Resolve ==
    /\ rState = "Idle"
    /\ IF rTimeout = 0
       THEN /\ rState' = "Resolved"
            /\ UNCHANGED rPhase
       ELSE /\ rState' = "Polling"
            /\ rPhase' = "probe"
    /\ UNCHANGED <<comboVars, uxVars, storeVars, urlVars, gateVars, rTimeout, rFrequency, rShorten,
                   dnsDown, rElapsed, rProbeTimes, rLastError, rFailure>>

\* a probe succeeds: Resolved at once
ProbeSucceeds ==
    /\ rState = "Polling"
    /\ rPhase = "probe"
    /\ ~ dnsDown
    /\ rProbeTimes' = rProbeTimes \cup {rElapsed}
    /\ rState' = "Resolved"
    /\ rPhase' = ""
    /\ UNCHANGED <<comboVars, uxVars, storeVars, urlVars, gateVars, rTimeout, rFrequency, rShorten,
                   dnsDown, rElapsed, rLastError, rFailure>>

\* a probe fails: remember the error and wait
ProbeFails ==
    /\ rState = "Polling"
    /\ rPhase = "probe"
    /\ rProbeTimes' = rProbeTimes \cup {rElapsed}
    /\ rLastError' = "ENOTFOUND"
    /\ rPhase' = "wait"
    /\ UNCHANGED <<comboVars, uxVars, storeVars, urlVars, gateVars, rTimeout, rFrequency, rShorten,
                   dnsDown, rState, rElapsed, rFailure>>

\* the wait ends: retry while elapsed < timeout, otherwise time out
WaitEnds ==
    /\ rState = "Polling"
    /\ rPhase = "wait"
    /\ rElapsed' = AfterWait(rElapsed, rFrequency, rTimeout, rShorten)
    /\ IF DeadlineReached(rElapsed', rTimeout)
       THEN /\ rState' = "TimedOut"
            /\ rPhase' = ""
            /\ rFailure' = << [kind    |-> "ResolutionTimeout",
                               elapsed |-> rElapsed',
                               last    |-> rLastError] >>
       ELSE /\ rPhase' = "probe"
            /\ UNCHANGED <<rState, rFailure>>
    /\ UNCHANGED <<comboVars, uxVars, storeVars, urlVars, gateVars, rTimeout, rFrequency, rShorten,
                   dnsDown, rProbeTimes, rLastError>>

NextResolver ==
    \/ Resolve
    \/ ProbeSucceeds
    \/ ProbeFails
    \/ WaitEnds

\* the event loop runs every due timer and continuation
SpecResolver == InitResolver /\ [][NextResolver]_vars /\ WF_vars(NextResolver)

\* a resolution that timed out did so within one poll interval of the timeout
TimedOutNearDeadline ==
    rState = "TimedOut" =>
        /\ rFailure # << >>
        /\ rFailure[1].kind = "ResolutionTimeout"
        /\ rFailure[1].elapsed = rElapsed
        /\ rFailure[1].last = "ENOTFOUND"
        /\ rElapsed >= rTimeout
        /\ rElapsed - rTimeout < rFrequency

\* C5: a resolution whose every probe fails terminates in TimedOut with a
\* ResolutionTimeout failure, the elapsed time at failure is within one poll
\* interval of the timeout, and no probe starts strictly after the deadline.
C5_AllProbesFailTimesOut ==
    /\ (dnsDown /\ rState = "Polling") ~> (rState = "TimedOut")
    /\ [](dnsDown => rState # "Resolved" \/ rProbeTimes = {})
    /\ []TimedOutNearDeadline
    /\ [](\A t \in rProbeTimes : t <= rTimeout)

\* C5 witness: every probe failed, several were made, the last wait overshot
\* the deadline by less than one interval, and the resolution timed out.
C5_Witness ==
    /\ dnsDown
    /\ rState = "TimedOut"
    /\ Cardinality(rProbeTimes) >= 2
    /\ rElapsed > rTimeout
    /\ rFailure[1].kind = "ResolutionTimeout"

-----------------------------------------------------------------------------
(* UX.warn *)

\* the warning messages passed to UX.warn
Messages == {"deprecated flag", "no default org", "api version mismatch"}

InitUx ==
    /\ ComboIdle
    /\ UrlIdle
    /\ GateIdle
    /\ ResolverIdle
    /\ UxIdle
    /\ StoreIdle

\* ux.warn(message) on an instance with the given isOutputEnabled, the logger
\* answering shouldLog(LoggerLevel.WARN) with shouldLog
Warn(message, isOutputEnabled, shouldLog) ==
    /\ uxLogged' = uxLogged \cup {message}
    /\ IF shouldLog
       THEN IF ~ isOutputEnabled
            THEN /\ uxWarnings' = uxWarnings \cup {message}
                 /\ UNCHANGED uxStderr
            ELSE /\ uxStderr' = uxStderr \cup {message}
                 /\ UNCHANGED uxWarnings
       ELSE UNCHANGED <<uxWarnings, uxStderr>>
    /\ uxCall' = << [message         |-> message,
                     isOutputEnabled |-> isOutputEnabled,
                     shouldLog       |-> shouldLog,
                     before          |-> uxWarnings] >>
    /\ UNCHANGED <<comboVars, urlVars, gateVars, resolverVars, storeVars>>

NextUx ==
    \E message \in Messages, isOutputEnabled \in BOOLEAN, shouldLog \in BOOLEAN :
        Warn(message, isOutputEnabled, shouldLog)

SpecUx == InitUx /\ [][NextUx]_vars

\* C11: after warn(message) on an instance whose stream output is not enabled,
\* message is in UX.warnings; on an instance whose stream output is enabled the
\* call leaves UX.warnings unchanged.
C11_WarnCollectsWhenOutputDisabled ==
    uxCall # << >> =>
        IF ~ uxCall[1].isOutputEnabled
        THEN uxCall[1].message \in uxWarnings
        ELSE uxWarnings = uxCall[1].before

-----------------------------------------------------------------------------
(* KeyValueStore (fileKeyValueStore.ts).  A JSON object is the sequence of its
   [key, value] entries in insertion order; the document maps each group that
   is present to its object. *)

Keys == {"a", "b", "c"}
Values == {"org1", "org2"}

\* the JavaScript value undefined
Undefined == "<undefined>"

\* delete obj[key]
ObjDelete(obj, key) == SelectSeq(obj, LAMBDA e : e.key # key)

\* obj[key] = value: an own key keeps its place, a new key goes last
ObjAssign(obj, key, value) ==
    IF \E i \in 1..Len(obj) : obj[i].key = key
    THEN [i \in 1..Len(obj) |->
             IF obj[i].key = key THEN [key |-> key, value |-> value] ELSE obj[i]]
    ELSE Append(obj, [key |-> key, value |-> value])

\* obj[key], Undefined when key is not an own key
ObjGet(obj, key) ==
    IF \E i \in 1..Len(obj) : obj[i].key = key
    THEN obj[CHOOSE i \in 1..Len(obj) : obj[i].key = key].value
    ELSE Undefined

\* _.entries(obj).find((val) => val[1] === property): the index of the first
\* entry holding property, 0 when there is none
FindByValue(obj, property) ==
    IF \E i \in 1..Len(obj) : obj[i].value = property
    THEN CHOOSE i \in 1..Len(obj) :
             /\ obj[i].value = property
             /\ \A j \in 1..(i - 1) : obj[j].value # property
    ELSE 0

\* aliases[group], created as {} when nil
WithGroup(aliases, group) ==
    IF group \in aliases.groups THEN aliases
    ELSE [groups  |-> aliases.groups \cup {group},
          entries |-> [aliases.entries EXCEPT ![group] = << >>]]

\* a _set that assigns without first deleting the key that holds the value
SetKeepingOther(aliases, group, alias, property) ==
    LET doc == WithGroup(aliases, group)
    IN  IF property = Undefined
        THEN [doc EXCEPT !.entries[group] = ObjDelete(doc.entries[group], alias)]
        ELSE [doc EXCEPT !.entries[group] =
                             ObjAssign(doc.entries[group], alias, property)]

\* _set(aliases, group, alias, property)
_set(aliases, group, alias, property) ==
    LET doc == WithGroup(aliases, group)
        obj == doc.entries[group]
        at  == FindByValue(obj, property)
    IN  IF property = Undefined
        THEN [doc EXCEPT !.entries[group] = ObjDelete(obj, alias)]
        ELSE [doc EXCEPT !.entries[group] =
                 ObjAssign(IF at # 0 THEN ObjDelete(obj, obj[at].key) ELSE obj,
                           alias, property)]

\* the key _set deletes because it holds property, "" when it deletes none
Evicted(aliases, group, alias, property) ==
    LET obj == WithGroup(aliases, group).entries[group]
    IN  IF property = Undefined \/ FindByValue(obj, property) = 0 THEN ""
        ELSE obj[FindByValue(obj, property)].key

\* _.forEach(newAliases, (val, key) => _set(aliases, group, key, val)) over
\* the first n entries of newAliases
RECURSIVE SetEach(_, _, _, _)
SetEach(aliases, group, newAliases, n) ==
    IF n = 0 THEN aliases
    ELSE _set(SetEach(aliases, group, newAliases, n - 1), group,
              newAliases[n].key, newAliases[n].value)

\* aliases[group] = _.omit(aliases[group], aliasesToUnset)
Omit(aliases, group, aliasesToUnset) ==
    [groups  |-> aliases.groups \cup {group},
     entries |-> [aliases.entries EXCEPT
                     ![group] = SelectSeq(@, LAMBDA e : e.key \notin aliasesToUnset)]]

\* list(group): aliases[group] || {}
List(aliases, group) ==
    IF group \in aliases.groups THEN aliases.entries[group] ELSE << >>

\* byValue(value, group): the first key of the group holding value
byValue(aliases, value, group) ==
    IF FindByValue(List(aliases, group), value) = 0 THEN Undefined
    ELSE List(aliases, group)[FindByValue(List(aliases, group), value)].key

\* how many keys one updateValues call sets
MaxBulk == 2

\* the newAliases objects: up to MaxBulk distinct keys, each with a value
NewAliasesOf(n) ==
    { na \in [1..n -> [key : Keys, value : Values \cup {Undefined}]] :
        \A i, j \in 1..n : na[i].key = na[j].key => i = j }

\* await this.readJSON(): the document the file holds now
readJSON == file

\* await this.write(aliases): the file holds aliases, whatever it held before
write(aliases) == file' = aliases

InitStore ==
    /\ ComboIdle
    /\ UrlIdle
    /\ GateIdle
    /\ ResolverIdle
    /\ UxIdle
    /\ StoreIdle

Called(op, group, alias, property, evicted) ==
    << [op |-> op, group |-> group, alias |-> alias,
        property |-> property, evicted |-> evicted] >>

\* await store.update(alias, property, group), run to completion
Update(alias, property, group) ==
    /\ write(_set(readJSON, group, alias, property))
    /\ lastCall' = Called("update", group, alias, property,
                          Evicted(file, group, alias, property))
    /\ UNCHANGED <<comboVars, urlVars, gateVars, resolverVars, uxVars,
                   tPc, tArgs, tLocal>>

\* await store.remove(alias, group): update(alias, undefined, group)
Remove(alias, group) ==
    /\ write(_set(readJSON, group, alias, Undefined))
    /\ lastCall' = Called("remove", group, alias, Undefined, "")
    /\ UNCHANGED <<comboVars, urlVars, gateVars, resolverVars, uxVars,
                   tPc, tArgs, tLocal>>

\* await store.updateValues(newAliases, group), run to completion
UpdateValues(newAliases, group) ==
    /\ write(SetEach(readJSON, group, newAliases, Len(newAliases)))
    /\ lastCall' = Called("updateValues", group, newAliases[1].key,
                          newAliases[1].value, "")
    /\ UNCHANGED <<comboVars, urlVars, gateVars, resolverVars, uxVars,
                   tPc, tArgs, tLocal>>

\* await store.unset(aliasesToUnset, group), run to completion
Unset(aliasesToUnset, group) ==
    /\ write(Omit(readJSON, group, aliasesToUnset))
    /\ lastCall' = Called("unset", group, "", Undefined, "")
    /\ UNCHANGED <<comboVars, urlVars, gateVars, resolverVars, uxVars,
                   tPc, tArgs, tLocal>>

NextStore ==
    \/ \E alias \in Keys, property \in Values, group \in Groups :
           Update(alias, property, group)
    \/ \E alias \in Keys, group \in Groups : Remove(alias, group)
    \/ \E n \in 1..MaxBulk : \E newAliases \in NewAliasesOf(n), group \in Groups :
           UpdateValues(newAliases, group)
    \/ \E aliasesToUnset \in SUBSET Keys, group \in Groups :
           Unset(aliasesToUnset, group)

SpecStore == InitStore /\ [][NextStore]_vars

\* C12: after any sequence of completed update, updateValues, remove and unset
\* calls on a new store, no group holds two keys with the same value, a key
\* just set holds its value, and byValue(value, group) names the one key that
\* holds value.
C12_OneKeyPerValue ==
    /\ \A g \in Groups : \A i, j \in 1..Len(List(file, g)) :
           List(file, g)[i].value = List(file, g)[j].value => i = j
    /\ \A g \in Groups, k \in Keys :
           ObjGet(List(file, g), k) # Undefined =>
               byValue(file, ObjGet(List(file, g), k), g) = k
    /\ (lastCall # << >> /\ lastCall[1].op = "update") =>
           /\ ObjGet(List(file, lastCall[1].group), lastCall[1].alias)
                  = lastCall[1].property
           /\ lastCall[1].evicted \notin {"", lastCall[1].alias} =>
                  ObjGet(List(file, lastCall[1].group), lastCall[1].evicted)
                      = Undefined

\* C12 witness: an update set a key to a value another key held, and that
\* other key is gone while a third key is still there.
C12_Witness ==
    /\ lastCall # << >>
    /\ lastCall[1].op = "update"
    /\ lastCall[1].evicted \notin {"", lastCall[1].alias}
    /\ Len(List(file, lastCall[1].group)) = 2

-----------------------------------------------------------------------------
(* Two update calls in flight on one store.  update awaits readJSON, applies
   _set to the document it read, and awaits write: each await is a point where
   the other call may run. *)

UpdateArgs == [alias : Keys, property : Values, group : Groups]

InitRace ==
    /\ ComboIdle
    /\ UrlIdle
    /\ GateIdle
    /\ ResolverIdle
    /\ UxIdle
    /\ file = NewDocument
    /\ lastCall = << >>
    /\ tPc = [t \in Tasks |-> "idle"]
    /\ tArgs \in { a \in [Tasks -> UpdateArgs] :
                      /\ a[1].alias # a[2].alias
                      /\ a[1].property # a[2].property
                      /\ a[1].group = a[2].group }
    /\ tLocal = [t \in Tasks |-> << >>]

\* const aliases = await this.readJSON();
UpdateRead(t) ==
    /\ tPc[t] = "idle"
    /\ tLocal' = [tLocal EXCEPT ![t] = readJSON]
    /\ tPc' = [tPc EXCEPT ![t] = "read"]
    /\ UNCHANGED <<comboVars, urlVars, gateVars, resolverVars, uxVars,
                   file, lastCall, tArgs>>

\* _set(aliases, group, alias, property); await this.write(aliases);
UpdateWrite(t) ==
    /\ tPc[t] = "read"
    /\ write(_set(tLocal[t], tArgs[t].group, tArgs[t].alias, tArgs[t].property))
    /\ tPc' = [tPc EXCEPT ![t] = "done"]
    /\ UNCHANGED <<comboVars, urlVars, gateVars, resolverVars, uxVars,
                   lastCall, tArgs, tLocal>>

NextRace ==
    \/ \E t \in Tasks : UpdateRead(t)
    \/ \E t \in Tasks : UpdateWrite(t)

SpecRace == InitRace /\ [][NextRace]_vars

\* C13: when two update calls for different aliases with different values in
\* one group overlap, then once both have completed the group holds both
\* aliases with their values.
C13_NoLostUpdate ==
    (\A t \in Tasks : tPc[t] = "done") =>
        \A t \in Tasks :
            ObjGet(List(file, tArgs[t].group), tArgs[t].alias) = tArgs[t].property

=============================================================================
